---- MODULE Spec2Model ----
(***************************************************************************)
(* A model of the Map-Reduce-Chain action-item extractor (src/src/*.py).   *)
(*                                                                         *)
(* Texts are tuples of single characters, so that strip(), lower(), find() *)
(* and the "in" substring test are computed as Python computes them.       *)
(* Confidence values are kept in hundredths (0.4 is 40).                   *)
(* ActionItem objects live in a heap (a sequence of records); lists hold   *)
(* heap indices, so that in-place assignment to a field is visible through *)
(* every list that holds the object.                                       *)
(***************************************************************************)
EXTENDS Integers, Sequences, FiniteSets, TLC

(***************************************************************************)
(* Bounds of the model.                                                    *)
(***************************************************************************)
\* longest list of items handed to validate_batch / handle_edge_cases
MaxBatch == 2
\* longest list of items handed to score_batch
MaxScored == 2
\* longest list of items handed to consolidate
MaxReduced == 2
\* largest number of chunks a transcript is cut into for MapChain.extract
MaxChunks == 3
\* most lines of a short transcript
MaxLines == 3

(***************************************************************************)
(* Python values.                                                          *)
(***************************************************************************)
\* None, kept distinct from every text: a text holds single characters only
None == <<"None">>
\* None for Optional[int]
NoneInt == 0 - 1

\* Python truthiness of an Optional[str]: None and "" are falsy
Falsy(s) == s = None \/ s = <<>>

Whitespace == {" ", "\t", "\n", "\r"}

RECURSIVE LStrip(_)
\* str.lstrip()
LStrip(s) ==
  IF s # <<>> /\ Head(s) \in Whitespace THEN LStrip(Tail(s)) ELSE s

RECURSIVE RStrip(_)
\* str.rstrip()
RStrip(s) ==
  IF s # <<>> /\ s[Len(s)] \in Whitespace
  THEN RStrip(SubSeq(s, 1, Len(s) - 1))
  ELSE s

\* str.strip()
Strip(s) == RStrip(LStrip(s))

UpperCase == <<"A", "B", "C", "D", "E", "F", "G", "H", "I", "J", "K", "L", "M",
               "N", "O", "P", "Q", "R", "S", "T", "U", "V", "W", "X", "Y", "Z">>
LowerCase == <<"a", "b", "c", "d", "e", "f", "g", "h", "i", "j", "k", "l", "m",
               "n", "o", "p", "q", "r", "s", "t", "u", "v", "w", "x", "y", "z">>

LowerChar(c) ==
  IF \E i \in 1..Len(UpperCase) : UpperCase[i] = c
  THEN LowerCase[CHOOSE i \in 1..Len(UpperCase) : UpperCase[i] = c]
  ELSE c

\* str.lower()
Lower(s) == [i \in 1..Len(s) |-> LowerChar(s[i])]

\* the Python test  sub in s
Contains(s, sub) ==
  \E i \in 1..(Len(s) - Len(sub) + 1) : SubSeq(s, i, i + Len(sub) - 1) = sub

\* str.find(c) for a single character, 0-based, -1 when absent
Find(s, c) ==
  IF \E i \in 1..Len(s) : s[i] = c
  THEN (CHOOSE i \in 1..Len(s) : s[i] = c /\ \A j \in 1..(i - 1) : s[j] # c) - 1
  ELSE 0 - 1

\* str.rfind(c) for a single character, 0-based, -1 when absent
RFind(s, c) ==
  IF \E i \in 1..Len(s) : s[i] = c
  THEN (CHOOSE i \in 1..Len(s) : s[i] = c /\ \A j \in (i + 1)..Len(s) : s[j] # c) - 1
  ELSE 0 - 1

\* the Python slice s[a:b] for 0 <= a
Slice(s, a, b) == SubSeq(s, a + 1, IF b > Len(s) THEN Len(s) ELSE b)

\* str.split(c) for a single character: the pieces between the places of c
Split(s, c) ==
  LET at == SelectSeq([i \in 1..Len(s) |-> i], LAMBDA i : s[i] = c)
      from(k) == IF k = 1 THEN 1 ELSE at[k - 1] + 1
      to(k) == IF k > Len(at) THEN Len(s) ELSE at[k] - 1
  IN  [k \in 1..(Len(at) + 1) |-> SubSeq(s, from(k), to(k))]

RECURSIVE Join(_, _)
\* c.join(parts) for a single character (by halves, to keep the recursion
\* shallow on long lists)
Join(parts, c) ==
  IF parts = <<>> THEN <<>>
  ELSE IF Len(parts) = 1 THEN parts[1]
  ELSE LET half == Len(parts) \div 2 IN
       Join(SubSeq(parts, 1, half), c) \o <<c>>
         \o Join(SubSeq(parts, half + 1, Len(parts)), c)

\* the Python slice seq[a:b] of a list, for 0 <= a
ListSlice(seq, a, b) == SubSeq(seq, a + 1, IF b > Len(seq) THEN Len(seq) ELSE b)

Max(a, b) == IF a >= b THEN a ELSE b

\* the value of an expression, bound to a name once
The(values) == CHOOSE v \in values : TRUE

\* all sequences over S of length at most n
SeqsUpTo(S, n) == UNION {[1..k -> S] : k \in 0..n}

(***************************************************************************)
(* Text constants of the program.                                          *)
(***************************************************************************)
S_Unassigned == <<"U", "n", "a", "s", "s", "i", "g", "n", "e", "d">>
S_NotSpecified == <<"N", "o", "t", " ", "s", "p", "e", "c", "i", "f", "i", "e", "d">>
S_Marker == <<" ", "[", "D", "E", "A", "D", "L", "I", "N", "E", " ", "N", "E", "E", "D", "S", " ", "C", "L", "A", "R", "I", "F", "I", "C", "A", "T", "I", "O", "N", "]">>

\* validation.py: vague_terms
vague_terms == { <<"s", "o", "m", "e", "t", "h", "i", "n", "g">>,
                 <<"s", "t", "u", "f", "f">>,
                 <<"t", "h", "i", "n", "g">>,
                 <<"w", "h", "a", "t", "e", "v", "e", "r">>,
                 <<"e", "t", "c">> }

\* validation.py: vague_deadlines
vague_deadlines == { <<"s", "o", "o", "n">>,
                     <<"A", "S", "A", "P">>,
                     <<"w", "h", "e", "n", " ", "p", "o", "s", "s", "i", "b", "l", "e">>,
                     <<"t", "h", "i", "s", " ", "w", "e", "e", "k">> }

\* config.py: CONFIDENCE_THRESHOLD = 0.4, in hundredths
CONFIDENCE_THRESHOLD == 40
\* config.py: CHUNK_SIZE_MINUTES
CHUNK_SIZE_MINUTES == 2
S_Unknown == <<"U", "n", "k", "n", "o", "w", "n">>

(***************************************************************************)
(* models.py: ActionItem.                                                  *)
(***************************************************************************)
ActionItem(task, owner, deadline, confidence, source_chunk, speaker, notes) ==
  [task |-> task, owner |-> owner, deadline |-> deadline,
   confidence |-> confidence, source_chunk |-> source_chunk,
   speaker |-> speaker, notes |-> notes]

(***************************************************************************)
(* Python floats, in hundredths; float() and the built-in min and max.     *)
(***************************************************************************)
Digits == <<"0", "1", "2", "3", "4", "5", "6", "7", "8", "9">>

IsDigits(s) == \A i \in 1..Len(s) : \E d \in 1..Len(Digits) : Digits[d] = s[i]

DigitValue(c) == (CHOOSE d \in 1..Len(Digits) : Digits[d] = c) - 1

RECURSIVE DigitsValue(_)
DigitsValue(s) ==
  IF s = <<>> THEN 0
  ELSE 10 * DigitsValue(SubSeq(s, 1, Len(s) - 1)) + DigitValue(s[Len(s)])

\* the first two decimals of a fraction, as hundredths
FractionValue(s) == DigitsValue(SubSeq(s \o <<"0", "0">>, 1, 2))

Finite(v) == [kind |-> "finite", v |-> v]
PosInf == [kind |-> "inf", v |-> 1]
NegInf == [kind |-> "inf", v |-> 0 - 1]
NaN == [kind |-> "nan", v |-> 0]

\* a < b on floats: every comparison with nan is false
FloatLess(a, b) ==
  IF a.kind = "nan" \/ b.kind = "nan" THEN FALSE
  ELSE IF a.kind = "inf" THEN a.v < 0 /\ ~(b.kind = "inf" /\ b.v < 0)
  ELSE IF b.kind = "inf" THEN b.v > 0
  ELSE a.v < b.v

\* min(a, b): the first argument unless the second is smaller
PyMin(a, b) == IF FloatLess(b, a) THEN b ELSE a

\* max(a, b): the first argument unless the second is larger
PyMax(a, b) == IF FloatLess(a, b) THEN b ELSE a

F_inf == <<"i", "n", "f">>
F_infinity == <<"i", "n", "f", "i", "n", "i", "t", "y">>
F_nan == <<"n", "a", "n">>

\* float(text): [ok |-> FALSE] is ValueError.  Decimal notation, inf and nan
\* are read; exponent notation is outside the inputs of the model.
Float(text) ==
  LET s == Strip(text)
      signed == s # <<>> /\ s[1] \in {"+", "-"}
      neg == s # <<>> /\ s[1] = "-"
      body == IF signed THEN Tail(s) ELSE s
      dot == Find(body, ".")
      ip == IF dot < 0 THEN body ELSE Slice(body, 0, dot)
      fp == IF dot < 0 THEN <<>> ELSE Slice(body, dot + 1, Len(body))
      mag == 100 * DigitsValue(ip) + FractionValue(fp)
  IN  IF Lower(body) \in {F_inf, F_infinity}
      THEN [ok |-> TRUE, val |-> IF neg THEN NegInf ELSE PosInf]
      ELSE IF Lower(body) = F_nan
      THEN [ok |-> TRUE, val |-> NaN]
      ELSE IF IsDigits(ip) /\ IsDigits(fp) /\ Len(ip) + Len(fp) > 0
      THEN [ok |-> TRUE, val |-> Finite(IF neg THEN 0 - mag ELSE mag)]
      ELSE [ok |-> FALSE, val |-> NaN]

(***************************************************************************)
(* JSON.  A response text is modelled as its sequence of lexemes (each a   *)
(* text; white space between lexemes is dropped): the punctuation marks,   *)
(* quoted strings, numbers, null, true, false, and any other word of       *)
(* prose.  loads() is a recursive-descent parse of the lexemes.            *)
(***************************************************************************)
LBrace == <<"{">>
RBrace == <<"}">>
LBracket == <<"[">>
RBracket == <<"]">>
Comma == <<",">>
Colon == <<":">>
L_null == <<"n", "u", "l", "l">>
L_true == <<"t", "r", "u", "e">>
L_false == <<"f", "a", "l", "s", "e">>

\* the lexeme of a quoted string
JStr(s) == <<"\"">> \o s \o <<"\"">>

IsJsonString(t) == Len(t) >= 2 /\ t[1] = "\"" /\ t[Len(t)] = "\""
StringOf(t) == SubSeq(t, 2, Len(t) - 1)

\* -?(0|[1-9][0-9]*)(\.[0-9]+)?
IsJsonNumber(t) ==
  LET body == IF t # <<>> /\ t[1] = "-" THEN Tail(t) ELSE t
      dot == Find(body, ".")
      ip == IF dot < 0 THEN body ELSE Slice(body, 0, dot)
      fp == IF dot < 0 THEN <<>> ELSE Slice(body, dot + 1, Len(body))
  IN  /\ ip # <<>> /\ IsDigits(ip)
      /\ (Len(ip) > 1 => ip[1] # "0")
      /\ (dot >= 0 => (fp # <<>> /\ IsDigits(fp)))

\* decoded values
JObject(members) == [t |-> "object", members |-> members]
JArray(elems) == [t |-> "array", elems |-> elems]
JString(str) == [t |-> "string", s |-> str]
\* n in hundredths; int tells an integer literal from a float literal
JNumber(n, int) == [t |-> "number", n |-> n, int |-> int]
JBool(b) == [t |-> "bool", b |-> b]
JNull == [t |-> "null"]

ParseFail == [ok |-> FALSE, val |-> JNull, next |-> 0]
ParseOk(v, n) == [ok |-> TRUE, val |-> v, next |-> n]

RECURSIVE ParseValue(_, _), ParseMembers(_, _, _), ParseElements(_, _, _)

\* the value that starts at lexeme i
ParseValue(toks, i) ==
  IF i > Len(toks) THEN ParseFail
  ELSE LET t == toks[i] IN
    IF t = LBrace
    THEN IF i + 1 <= Len(toks) /\ toks[i + 1] = RBrace
         THEN ParseOk(JObject(<<>>), i + 2)
         ELSE ParseMembers(toks, i + 1, <<>>)
    ELSE IF t = LBracket
    THEN IF i + 1 <= Len(toks) /\ toks[i + 1] = RBracket
         THEN ParseOk(JArray(<<>>), i + 2)
         ELSE ParseElements(toks, i + 1, <<>>)
    ELSE IF IsJsonString(t) THEN ParseOk(JString(StringOf(t)), i + 1)
    ELSE IF IsJsonNumber(t)
    THEN ParseOk(JNumber(Float(t).val.v, Find(t, ".") < 0), i + 1)
    ELSE IF t = L_null THEN ParseOk(JNull, i + 1)
    ELSE IF t \in {L_true, L_false} THEN ParseOk(JBool(t = L_true), i + 1)
    ELSE ParseFail

\* the members of an object from the key at lexeme i, up to its "}"
ParseMembers(toks, i, members) ==
  IF i + 1 > Len(toks) THEN ParseFail
  ELSE IF ~IsJsonString(toks[i]) \/ toks[i + 1] # Colon THEN ParseFail
  ELSE LET v == ParseValue(toks, i + 2)
           ms == Append(members, [key |-> StringOf(toks[i]), val |-> v.val])
       IN  IF ~v.ok \/ v.next > Len(toks) THEN ParseFail
           ELSE IF toks[v.next] = Comma THEN ParseMembers(toks, v.next + 1, ms)
           ELSE IF toks[v.next] = RBrace THEN ParseOk(JObject(ms), v.next + 1)
           ELSE ParseFail

\* the elements of an array from the value at lexeme i, up to its "]"
ParseElements(toks, i, elems) ==
  LET v == ParseValue(toks, i)
      es == Append(elems, v.val)
  IN  IF ~v.ok \/ v.next > Len(toks) THEN ParseFail
      ELSE IF toks[v.next] = Comma THEN ParseElements(toks, v.next + 1, es)
      ELSE IF toks[v.next] = RBracket THEN ParseOk(JArray(es), v.next + 1)
      ELSE ParseFail

\* json.loads(text): [ok |-> FALSE] is JSONDecodeError; text that goes on
\* after the value is an error too
loads(toks) ==
  LET v == ParseValue(toks, 1) IN
  IF v.ok /\ v.next = Len(toks) + 1 THEN v ELSE ParseFail

HasKey(obj, key) == \E k \in 1..Len(obj.members) : obj.members[k].key = key

\* dict.get(key, default): the last member of that name
DictGet(obj, key, default) ==
  IF HasKey(obj, key)
  THEN obj.members[CHOOSE k \in 1..Len(obj.members) :
                     /\ obj.members[k].key = key
                     /\ \A j \in (k + 1)..Len(obj.members) :
                          obj.members[j].key # key].val
  ELSE default

(***************************************************************************)
(* The external collaborator: self.llm.invoke(prompt).  A call either      *)
(* raises, or returns a response whose content is a text or is missing.    *)
(***************************************************************************)
Raises(e) == [exc |-> e, has_content |-> FALSE, content |-> <<>>]
Responds(text) == [exc |-> "none", has_content |-> TRUE, content |-> text]
NoContent == [exc |-> "none", has_content |-> FALSE, content |-> <<>>]

K_task == <<"t", "a", "s", "k">>
K_owner == <<"o", "w", "n", "e", "r">>
K_deadline == <<"d", "e", "a", "d", "l", "i", "n", "e">>
K_confidence == <<"c", "o", "n", "f", "i", "d", "e", "n", "c", "e">>
K_source_chunk == <<"s", "o", "u", "r", "c", "e", "_", "c", "h", "u", "n", "k">>
K_speaker == <<"s", "p", "e", "a", "k", "e", "r">>
K_notes == <<"n", "o", "t", "e", "s">>
K_items == <<"i", "t", "e", "m", "s">>
K_summary == <<"s", "u", "m", "m", "a", "r", "y">>
K_duplicates_removed == <<"d", "u", "p", "l", "i", "c", "a", "t", "e", "s", "_", "r", "e", "m", "o", "v", "e", "d">>
K_items_needing_review == <<"i", "t", "e", "m", "s", "_", "n", "e", "e", "d", "i", "n", "g", "_", "r", "e", "v", "i", "e", "w">>

\* a keyword argument that is absent or has one of the given JSON types
AbsentOr(obj, key, types) ==
  ~HasKey(obj, key) \/ DictGet(obj, key, JNull).t \in types

\* the text given for an Optional[str] field, None when absent or null
OptionalText(obj, key) ==
  IF HasKey(obj, key) /\ DictGet(obj, key, JNull).t = "string"
  THEN DictGet(obj, key, JNull).s
  ELSE None

\* whether ActionItem built from item_data validates: item_data must be a mapping;
\* task is required; a str field takes a string, an Optional[str] field a
\* string or null, confidence a number in [0,1], source_chunk a whole number
\* or null; unknown keys are ignored
Coercible(v) ==
  /\ v.t = "object"
  /\ HasKey(v, K_task) /\ DictGet(v, K_task, JNull).t = "string"
  /\ AbsentOr(v, K_owner, {"string"})
  /\ AbsentOr(v, K_deadline, {"string", "null"})
  /\ AbsentOr(v, K_speaker, {"string", "null"})
  /\ AbsentOr(v, K_notes, {"string", "null"})
  /\ HasKey(v, K_confidence) =>
       /\ DictGet(v, K_confidence, JNull).t = "number"
       /\ DictGet(v, K_confidence, JNull).n >= 0
       /\ DictGet(v, K_confidence, JNull).n <= 100
  /\ AbsentOr(v, K_source_chunk, {"number", "null"})
  /\ (HasKey(v, K_source_chunk) /\ DictGet(v, K_source_chunk, JNull).t = "number")
       => DictGet(v, K_source_chunk, JNull).n % 100 = 0

\* ActionItem built from item_data for a coercible item_data, with the defaults
Coerce(v) ==
  ActionItem(
    DictGet(v, K_task, JNull).s,
    IF HasKey(v, K_owner) THEN DictGet(v, K_owner, JNull).s ELSE S_Unassigned,
    OptionalText(v, K_deadline),
    IF HasKey(v, K_confidence) THEN DictGet(v, K_confidence, JNull).n ELSE 50,
    IF HasKey(v, K_source_chunk) /\ DictGet(v, K_source_chunk, JNull).t = "number"
    THEN DictGet(v, K_source_chunk, JNull).n \div 100 ELSE NoneInt,
    OptionalText(v, K_speaker),
    OptionalText(v, K_notes))

\* what a for loop over a decoded value visits; [ok |-> FALSE] is TypeError.
\* A string yields its characters and an object its keys: texts, which
\* ActionItem built from item_data refuses one by one
Iterate(v) ==
  IF v.t = "array" THEN [ok |-> TRUE, elems |-> v.elems]
  ELSE IF v.t = "string"
  THEN [ok |-> TRUE, elems |-> [k \in 1..Len(v.s) |-> JString(<<v.s[k]>>)]]
  ELSE IF v.t = "object"
  THEN [ok |-> TRUE, elems |-> [k \in 1..Len(v.members) |-> JString(v.members[k].key)]]
  ELSE [ok |-> FALSE, elems |-> <<>>]

RECURSIVE CoerceAll(_)
\* the loop "for item_data in ...: try: ActionItem built from item_data": the
\* elements that validate, in order; the others are dropped one by one
CoerceAll(elems) ==
  IF elems = <<>> THEN <<>>
  ELSE (IF Coercible(Head(elems)) THEN <<Coerce(Head(elems))>> ELSE <<>>)
         \o CoerceAll(Tail(elems))

\* the indices of n objects appended to a heap
NewIds(heap, n) == [k \in 1..n |-> Len(heap) + k]

(***************************************************************************)
(* document_loader.py: DocumentLoader.  A Document is its page_content and *)
(* the metadata the chunkers read or write; process is called without      *)
(* extra metadata, as main.py calls the loader.                            *)
(***************************************************************************)
LineDocument(content, speaker, line_index, original_text) ==
  [page_content |-> content, speaker |-> speaker, line_index |-> line_index,
   original_text |-> original_text]

ChunkDocument(text, chunk_index, strategy, speaker, num_lines) ==
  [page_content |-> text, chunk_index |-> chunk_index,
   chunk_strategy |-> strategy, speaker |-> speaker, num_lines |-> num_lines]

\* lines 49-57: "Speaker: text" is cut at the first colon
IngestLine(line, i) ==
  IF Contains(line, <<":">>)
  THEN LET parts == <<Slice(line, 0, Find(line, ":")),
                      Slice(line, Find(line, ":") + 1, Len(line))>>
       IN  LineDocument(Strip(parts[2]), Strip(parts[1]), i, line)
  ELSE LineDocument(line, S_Unknown, i, line)

\* the loop of ingest: every line with its index, blank lines skipped
IngestLoop(lines) ==
  LET kept == SelectSeq([i \in 1..Len(lines) |-> i],
                        LAMBDA i : Strip(lines[i]) # <<>>)
  IN  [k \in 1..Len(kept) |-> IngestLine(lines[kept[k]], kept[k] - 1)]

ingest(text) == IngestLoop(Split(Strip(text), "\n"))

\* lines 95-106 and 112-121: the chunk of the lines collected so far
TurnChunk(content, speaker, chunk_index) ==
  ChunkDocument(Join(content, "\n"), chunk_index, "speaker_turns", speaker,
                Len(content))

\* a loop body that closes the chunk in progress at every line, whoever
\* speaks
TurnStep_CutEveryLine(locals, doc) ==
  LET flush == /\ locals.current_speaker # None
               /\ locals.current_chunk_content # <<>>
  IN  [chunks |-> IF flush
                  THEN Append(locals.chunks,
                              TurnChunk(locals.current_chunk_content,
                                        locals.current_speaker,
                                        Len(locals.chunks)))
                  ELSE locals.chunks,
       current_chunk_content |->
         (IF flush THEN <<>> ELSE locals.current_chunk_content)
           \o <<doc.page_content>>,
       current_speaker |-> doc.speaker]

\* lines 89-109: one pass of the loop body over a document, on the locals
\* chunks, current_chunk_content and current_speaker
TurnStep(locals, doc) ==
  LET speaker == doc.speaker
      flush == /\ locals.current_speaker # None
               /\ speaker # locals.current_speaker
               /\ locals.current_chunk_content # <<>>
  IN  [chunks |-> IF flush
                  THEN Append(locals.chunks,
                              TurnChunk(locals.current_chunk_content,
                                        locals.current_speaker,
                                        Len(locals.chunks)))
                  ELSE locals.chunks,
       current_chunk_content |->
         (IF flush THEN <<>> ELSE locals.current_chunk_content)
           \o <<doc.page_content>>,
       current_speaker |-> speaker]

RECURSIVE TurnLoop(_, _, _, _)
\* the loop over documents[lo..hi] in order, started with the given locals
\* (the range is walked by halves to keep the evaluation shallow)
TurnLoop(documents, lo, hi, locals) ==
  IF lo > hi THEN locals
  ELSE IF lo = hi THEN TurnStep(locals, documents[lo])
  ELSE LET mid == (lo + hi) \div 2
           sofar == TurnLoop(documents, lo, mid, locals)
       IN  \* the test makes the evaluator finish the first half first
           IF Len(sofar.chunks) >= 0
           THEN TurnLoop(documents, mid + 1, hi, sofar)
           ELSE sofar

\* lines 84-87: the locals before the loop
TurnLocals ==
  [chunks |-> <<>>, current_chunk_content |-> <<>>, current_speaker |-> None]

\* a chunker that forgets the chunk in progress at the end of the input
chunk_by_speaker_turns_NoFlush(documents) ==
  IF documents = <<>> THEN <<>>
  ELSE TurnLoop(documents, 1, Len(documents), TurnLocals).chunks

chunk_by_speaker_turns(documents) ==
  IF documents = <<>> THEN <<>>
  ELSE LET end == TurnLoop(documents, 1, Len(documents), TurnLocals)
       IN  IF end.current_chunk_content # <<>>
           THEN Append(end.chunks,
                       TurnChunk(end.current_chunk_content, end.current_speaker,
                                 Len(end.chunks)))
           ELSE end.chunks

\* line 142
TimeChunkSize(n, chunk_size_minutes) ==
  Max(1, n \div Max(1, n \div (chunk_size_minutes * 30)))

RECURSIVE TimeLoop(_, _, _)
\* the batches documents[j:j + chunk_size] for j = 0, chunk_size, ...
TimeLoop(documents, chunk_size, j) ==
  IF j >= Len(documents) THEN <<>>
  ELSE LET chunk_docs == ListSlice(documents, j, j + chunk_size) IN
       <<ChunkDocument(
           Join([k \in 1..Len(chunk_docs) |-> chunk_docs[k].page_content], "\n"),
           j \div chunk_size, "time_based", None, Len(chunk_docs))>>
         \o TimeLoop(documents, chunk_size, j + chunk_size)

chunk_by_time(documents, chunk_size_minutes) ==
  TimeLoop(documents, TimeChunkSize(Len(documents), chunk_size_minutes), 0)

\* process: an unknown strategy falls back to speaker turns
process(chunk_strategy, text) ==
  IF chunk_strategy = "time_based"
  THEN chunk_by_time(ingest(text), CHUNK_SIZE_MINUTES)
  ELSE chunk_by_speaker_turns(ingest(text))

(***************************************************************************)
(* reduce_chain.py: ReduceChain.                                           *)
(***************************************************************************)
N_None == [text |-> "None", n |-> 0]
N_Consolidated(n) == [text |-> "Consolidated from", n |-> n]
N_Failed == [text |-> "Consolidation failed", n |-> 0]
N_Error == [text |-> "Error", n |-> 0]

\* models.py: ReducePhaseOutput, with the heap after the call and the
\* number of collaborator calls made
ReducePhaseOutput(heap, items, duplicates_removed, fields_filled, notes, calls) ==
  [heap |-> heap, items |-> items, duplicates_removed |-> duplicates_removed,
   fields_filled |-> fields_filled, notes |-> notes, calls |-> calls]

\* a counter of ReducePhaseOutput validates when it is a whole number
IsCount(v) == v.t = "number" /\ v.n % 100 = 0

\* lines 83-101: the consolidated items are new objects
ReduceParsed(heap, ids, result_data) ==
  LET listed == Iterate(DictGet(result_data, K_items, JArray(<<>>)))
      summary == DictGet(result_data, K_summary, JObject(<<>>))
      removed == DictGet(summary, K_duplicates_removed, JNumber(0, TRUE))
      review == DictGet(summary, K_items_needing_review, JNumber(0, TRUE))
      made == CoerceAll(listed.elems)
  IN  IF ~listed.ok \/ summary.t # "object"
      THEN ReducePhaseOutput(heap, ids, 0, 0, N_Error, 1)
      ELSE IF ~IsCount(removed) \/ ~IsCount(review)
      THEN ReducePhaseOutput(heap, ids, 0, 0, N_Error, 1)
      ELSE ReducePhaseOutput(heap \o made, NewIds(heap, Len(made)),
                             removed.n \div 100, review.n \div 100,
                             N_Consolidated(Len(ids)), 1)

\* lines 57-123: the call and the parse of its response
Consolidated(heap, ids, reply) ==
  IF reply.exc # "none" \/ ~reply.has_content
  THEN ReducePhaseOutput(heap, ids, 0, 0, N_Error, 1)
  ELSE LET response_text == reply.content
           json_start == Find(response_text, LBrace)
           json_end == RFind(response_text, RBrace) + 1
           decoded == loads(Slice(response_text, json_start, json_end))
       IN  IF json_start # 0 - 1 /\ json_end > json_start
           THEN IF decoded.ok
                THEN ReduceParsed(heap, ids, decoded.val)
                ELSE ReducePhaseOutput(heap, ids, 0, 0, N_Failed, 1)
           ELSE ReduceParsed(heap, ids, JObject(<<[key |-> K_items,
                                                   val |-> JArray(<<>>)]>>))

\* a consolidate without the early return for an empty list
consolidate_NoEmptyCheck(heap, ids, reply) == Consolidated(heap, ids, reply)

consolidate(heap, ids, reply) ==
  IF ids = <<>>
  THEN ReducePhaseOutput(heap, <<>>, 0, 0, N_None, 0)
  ELSE Consolidated(heap, ids, reply)

(***************************************************************************)
(* map_chain.py: MapChain.                                                 *)
(***************************************************************************)
E_None == [set |-> FALSE, text |-> ""]
E_Text(t) == [set |-> TRUE, text |-> t]

\* models.py: MapPhaseOutput, with the heap after the call
MapPhaseOutput(heap, items, chunk_index, total_chunks, error) ==
  [heap |-> heap, items |-> items, chunk_index |-> chunk_index,
   total_chunks |-> total_chunks, error |-> error]

\* a conversion that stamps only the items that came without a source_chunk
MapParsed_KeepsSupplied(heap, items_data, chunk_index, total_chunks) ==
  LET made == CoerceAll(items_data)
      stamped == [k \in 1..Len(made) |->
                    IF made[k].source_chunk = NoneInt
                    THEN [made[k] EXCEPT !.source_chunk = chunk_index]
                    ELSE made[k]]
  IN  MapPhaseOutput(heap \o stamped, NewIds(heap, Len(made)),
                     chunk_index, total_chunks, E_None)

\* lines 79-96: item.source_chunk = chunk_index on every new object
MapParsed(heap, items_data, chunk_index, total_chunks) ==
  LET made == CoerceAll(items_data)
      stamped == [k \in 1..Len(made) |->
                    [made[k] EXCEPT !.source_chunk = chunk_index]]
  IN  MapPhaseOutput(heap \o stamped, NewIds(heap, Len(made)),
                     chunk_index, total_chunks, E_None)

\* MapChain.extract; the chunk text reaches the collaborator only
extract(heap, chunk_text, chunk_index, total_chunks, reply) ==
  IF reply.exc # "none"
  THEN MapPhaseOutput(heap, <<>>, chunk_index, total_chunks, E_Text(reply.exc))
  ELSE IF ~reply.has_content
  THEN MapPhaseOutput(heap, <<>>, chunk_index, total_chunks,
                      E_Text("AttributeError"))
  ELSE LET response_text == reply.content
           json_start == Find(response_text, LBracket)
           json_end == RFind(response_text, RBracket) + 1
           decoded == loads(Slice(response_text, json_start, json_end))
       IN  IF json_start # 0 - 1 /\ json_end > json_start
           THEN IF decoded.ok
                THEN MapParsed(heap, decoded.val.elems, chunk_index, total_chunks)
                ELSE MapPhaseOutput(heap, <<>>, chunk_index, total_chunks,
                                    E_Text("JSON parsing failed"))
           ELSE MapParsed(heap, <<>>, chunk_index, total_chunks)

\* lines 122-125: extract on each chunk in order, every result appended
RECURSIVE BatchLoop(_, _, _, _, _)
BatchLoop(heap, chunks, answers, k, results) ==
  IF k > Len(chunks)
  THEN [heap |-> heap, results |-> results]
  ELSE The({ BatchLoop(result.heap, chunks, answers, k + 1,
                       Append(results, result)) :
             result \in { extract(heap, chunks[k], k - 1, Len(chunks),
                                  answers[k]) } })

\* a loop that gives up at the first chunk whose result carries an error
extract_batch_StopOnError(heap, chunks, answers) ==
  The({ [heap |-> done.heap,
         results |-> SubSeq(done.results, 1,
                            IF \E k \in 1..Len(done.results) : done.results[k].error.set
                            THEN CHOOSE k \in 1..Len(done.results) :
                                   /\ done.results[k].error.set
                                   /\ \A j \in 1..(k - 1) : ~done.results[j].error.set
                            ELSE Len(done.results))] :
        done \in { BatchLoop(heap, chunks, answers, 1, <<>>) } })

\* MapChain.extract_batch; answers[k] is the collaborator's k-th reply
extract_batch(heap, chunks, answers) ==
  BatchLoop(heap, chunks, answers, 1, <<>>)

(***************************************************************************)
(* validation.py: ValidationLayer.                                         *)
(***************************************************************************)
R_ConfidenceTooLow == "Confidence too low"
R_TaskEmpty == "Task is empty"
R_TooVague == "Task description is too vague"
R_Valid == "Valid"

\* the (is_valid, reason) tuple; the low-confidence reason cites both values
Verdict(ok, msg, cited) == [valid |-> ok, reason |-> msg, cited |-> cited]

\* a vague-term test that forgets lower()
IsVagueTask_CaseSensitive(task) == \E term \in vague_terms : Contains(task, term)

IsVagueTask(task) == \E term \in vague_terms : Contains(Lower(task), term)

\* a threshold test that also rejects the threshold value itself
validate_item_Exclusive(item, threshold) ==
  IF item.confidence <= threshold
  THEN Verdict(FALSE, R_ConfidenceTooLow, <<item.confidence, threshold>>)
  ELSE IF Falsy(item.task) \/ Strip(item.task) = <<>>
  THEN Verdict(FALSE, R_TaskEmpty, <<>>)
  ELSE IF IsVagueTask(item.task)
  THEN Verdict(FALSE, R_TooVague, <<>>)
  ELSE Verdict(TRUE, R_Valid, <<>>)

validate_item(item, threshold) ==
  IF item.confidence < threshold
  THEN Verdict(FALSE, R_ConfidenceTooLow, <<item.confidence, threshold>>)
  ELSE IF Falsy(item.task) \/ Strip(item.task) = <<>>
  THEN Verdict(FALSE, R_TaskEmpty, <<>>)
  ELSE IF IsVagueTask(item.task)
  THEN Verdict(FALSE, R_TooVague, <<>>)
  ELSE Verdict(TRUE, R_Valid, <<>>)

\* validate_batch: the two lists, in input order
SelectIds(heap, ids, threshold, want) ==
  SelectSeq(ids, LAMBDA i : validate_item(heap[i], threshold).valid = want)

validate_batch(heap, ids, threshold) ==
  [valid_items |-> SelectIds(heap, ids, threshold, TRUE),
   invalid_items |-> SelectIds(heap, ids, threshold, FALSE)]

\* a backfill that leaves the deadline as it came
handle_missing_fields_OwnerOnly(item) ==
  [item EXCEPT
     !.owner = IF Falsy(@) \/ Strip(@) = <<>> THEN S_Unassigned ELSE @,
     !.notes = IF Falsy(@) THEN None ELSE @]

handle_missing_fields(item) ==
  [item EXCEPT
     !.owner = IF Falsy(@) \/ Strip(@) = <<>> THEN S_Unassigned ELSE @,
     !.deadline = IF Falsy(@) \/ Strip(@) = <<>> THEN S_NotSpecified ELSE @,
     !.notes = IF Falsy(@) THEN None ELSE @]

IsVagueDeadline(deadline) == \E term \in vague_deadlines : Contains(deadline, term)

\* an iteration that appends the marker without its leading space
EdgeCaseItem_StrippedMarker(item) ==
  LET filled == handle_missing_fields(item) IN
  IF ~Falsy(filled.deadline) /\ IsVagueDeadline(filled.deadline)
  THEN [filled EXCEPT !.notes = (IF Falsy(@) THEN <<>> ELSE @) \o Tail(S_Marker)]
  ELSE filled

\* one iteration of handle_edge_cases' loop, on the object itself
EdgeCaseItem(item) ==
  LET filled == handle_missing_fields(item) IN
  IF ~Falsy(filled.deadline) /\ IsVagueDeadline(filled.deadline)
  THEN [filled EXCEPT !.notes = (IF Falsy(@) THEN <<>> ELSE @) \o S_Marker]
  ELSE filled

RECURSIVE EdgeCaseLoop(_, _)
\* the loop of handle_edge_cases: every object is assigned to in list order
EdgeCaseLoop(heap, ids) ==
  IF ids = <<>> THEN heap
  ELSE EdgeCaseLoop([heap EXCEPT ![Head(ids)] = EdgeCaseItem(@)], Tail(ids))

\* handle_edge_cases: the heap after the loop and the returned list
handle_edge_cases(heap, ids) ==
  [heap |-> EdgeCaseLoop(heap, ids), processed_items |-> ids]

(***************************************************************************)
(* confidence_chain.py: ConfidenceChain.                                   *)
(***************************************************************************)
\* the exceptions the handler of score_confidence names
ScoreHandled == {"ValueError", "AttributeError"}

\* a clamp that forgets the upper end
Clamp_NoUpper(score) == PyMax(Finite(0), score).v

\* max(0.0, min(1.0, score))
Clamp(score) == PyMax(Finite(0), PyMin(Finite(100), score)).v

Returned(v) == [raised |-> "none", value |-> v]
Raised(e) == [raised |-> e, value |-> 0]

\* score_confidence: the handler reads score_text, which is bound only once
\* response.content.strip() has returned
score_confidence(item, reply) ==
  IF reply.exc # "none"
  THEN IF reply.exc \in ScoreHandled
       THEN Raised("UnboundLocalError")
       ELSE Raised(reply.exc)
  ELSE IF ~reply.has_content
  THEN Raised("UnboundLocalError")
  ELSE LET score == Float(Strip(reply.content)) IN
       IF score.ok THEN Returned(Clamp(score.val))
       ELSE Returned(item.confidence)

RECURSIVE ScoreLoop(_, _, _, _)
\* the loop of score_batch from position k: each object's confidence is
\* assigned in list order; an exception leaves the loop at once
ScoreLoop(heap, ids, replies, k) ==
  IF k > Len(ids)
  THEN [heap |-> heap, raised |-> "none", calls |-> Len(ids)]
  ELSE The({ IF r.raised # "none"
             THEN [heap |-> heap, raised |-> r.raised, calls |-> k]
             ELSE ScoreLoop([heap EXCEPT ![ids[k]].confidence = r.value],
                            ids, replies, k + 1) :
             r \in { score_confidence(heap[ids[k]], replies[k]) } })

\* score_batch: the heap after the loop, the returned list, the exception
\* that left it (if any) and the number of collaborator calls made
score_batch(heap, ids, replies) ==
  The({ [heap |-> r.heap, scored_items |-> ids, raised |-> r.raised,
         calls |-> r.calls] : r \in { ScoreLoop(heap, ids, replies, 1) } })

(***************************************************************************)
(* main.py: ActionItemExtractor.  The extractor is built with a speaker-    *)
(* turn loader and the configured threshold (lines 20-26); extract is one  *)
(* call, from its first statement to its return or to the exception that   *)
(* leaves it.  Every stage the run completes is written to stages.         *)
(***************************************************************************)
\* document_loader.py: the names an instance of DocumentLoader has
DocumentLoaderAttributes ==
  {"chunk_strategy", "ingest", "chunk_by_speaker_turns", "chunk_by_time",
   "process"}

\* the k-th answer of a collaborator that gives the answers in turn
AnswerAt(answers, k) == answers[((k - 1) % Len(answers)) + 1]

RECURSIVE MapLoop(_, _, _, _, _, _)
\* lines 50-57: the chunks in list order, from position k, with the locals
\* map_results and all_items
MapLoop(heap, chunks, answers, k, map_results, all_items) ==
  IF k > Len(chunks)
  THEN [heap |-> heap, map_results |-> map_results, all_items |-> all_items]
  ELSE The({ MapLoop(result.heap, chunks, answers, k + 1,
                     Append(map_results, result), all_items \o result.items) :
             result \in { extract(heap, chunks[k].page_content, k - 1,
                                  Len(chunks), AnswerAt(answers, k)) } })

\* the end of a run: what it returned or raised, the objects, the stages
\* completed, the collaborator calls made, and the records the MAP and
\* REDUCE stages built (each with the objects as they were when it was built)
RunEnd(heap, returned, raised, stages, calls, map_results, reduce_results) ==
  [heap |-> heap, returned |-> returned, raised |-> raised, stages |-> stages,
   calls |-> calls, map_results |-> map_results,
   reduce_results |-> reduce_results]

\* lines 76-83: Step 5 on the scored items
ValidateStep(scored, stages, calls, threshold, map_results, reduce_result) ==
  IF scored.raised # "none"
  THEN RunEnd(scored.heap, <<>>, scored.raised, stages, calls + scored.calls,
              map_results, <<reduce_result>>)
  ELSE The({ RunEnd(edge.heap, edge.processed_items, "none",
                    stages \o <<"Confidence", "Validate">>,
                    calls + scored.calls, map_results, <<reduce_result>>) :
             edge \in { handle_edge_cases(
                          scored.heap,
                          validate_batch(scored.heap, scored.scored_items,
                                         threshold).valid_items) } })

\* lines 68-74: Step 4 on the consolidated items
ConfidenceStep(reduce_result, stages, calls, threshold, scoreAnswers, map_results) ==
  The({ ValidateStep(scored, stages \o <<"Reduce">>,
                     calls + reduce_result.calls, threshold, map_results,
                     reduce_result) :
        scored \in { score_batch(reduce_result.heap, reduce_result.items,
                                 [k \in 1..Len(reduce_result.items) |->
                                    AnswerAt(scoreAnswers, k)]) } })

\* a run that goes without the REDUCE stage when there is nothing to merge
ReduceStep_SkipSingle(mapped, stages, calls, threshold, reduceAnswer, scoreAnswers) ==
  IF Len(mapped.all_items) <= 1
  THEN RunEnd(mapped.heap, <<>>, "none", stages, calls, mapped.map_results,
              <<>>)
  ELSE The({ ConfidenceStep(reduce_result, stages, calls, threshold,
                            scoreAnswers, mapped.map_results) :
             reduce_result \in { consolidate(mapped.heap, mapped.all_items,
                                             reduceAnswer) } })

\* lines 59-67: the early return, or Step 3 on all the items of the MAP phase
ReduceStep(mapped, stages, calls, threshold, reduceAnswer, scoreAnswers) ==
  IF mapped.all_items = <<>>
  THEN RunEnd(mapped.heap, <<>>, "none", stages, calls, mapped.map_results,
              <<>>)
  ELSE The({ ConfidenceStep(reduce_result, stages, calls, threshold,
                            scoreAnswers, mapped.map_results) :
             reduce_result \in { consolidate(mapped.heap, mapped.all_items,
                                             reduceAnswer) } })

\* lines 47-83: the run from a chunk list on
ExtractFromChunks(heap, chunks, threshold, mapAnswers, reduceAnswer, scoreAnswers) ==
  The({ ReduceStep(mapped, <<"Chunk">> \o [k \in 1..Len(chunks) |-> "Map"],
                   Len(chunks), threshold, reduceAnswer, scoreAnswers) :
        mapped \in { MapLoop(heap, chunks, mapAnswers, 1, <<>>, <<>>) } })

\* lines 41-83: line 45 asks the loader for its attribute "load"
ExtractorRun(heap, chunk_strategy, threshold, transcript_text, mapAnswers, reduceAnswer, scoreAnswers) ==
  IF "load" \notin DocumentLoaderAttributes
  THEN RunEnd(heap, <<>>, "AttributeError", <<>>, 0, <<>>, <<>>)
  ELSE The({ ExtractFromChunks(heap, chunks, threshold, mapAnswers,
                               reduceAnswer, scoreAnswers) :
             chunks \in { process(chunk_strategy, transcript_text) } })

(***************************************************************************)
(* State.                                                                  *)
(***************************************************************************)
VARIABLES
  heap,                  \* the ActionItem objects
  heap0,                 \* the objects as they were when the call was made
  confidence_threshold,  \* ValidationLayer.confidence_threshold
  pc,                    \* "idle", or what the caller did last
  input,                 \* the argument of the last call
  output,                \* what the last call returned
  exc,                   \* the exception the last call raised, or "none"
  replies,               \* what the collaborator answered during the call
  llmCalls               \* collaborator calls made by the last call

vars == <<heap, heap0, confidence_threshold, pc, input, output, exc, replies,
          llmCalls>>

(***************************************************************************)
(* The validation layer driven by a caller: validate_item on one object,   *)
(* or validate_batch followed by handle_edge_cases on the accepted items   *)
(* (main.py, step 5).                                                      *)
(***************************************************************************)
T_Good == <<"S", "e", "n", "d", " ", "r", "e", "p", "o", "r", "t">>
T_Thing == <<"R", "e", "v", "i", "e", "w", " ", "t", "h", "e", " ", "t", "h", "i", "n", "g", " ", "w", "i", "t", "h", " ", "t", "h", "e", " ", "t", "e", "a", "m">>
T_Fetch == <<"F", "e", "t", "c", "h", " ", "l", "o", "g", "s">>
T_Stuff == <<"D", "o", " ", "S", "T", "U", "F", "F">>
T_Blank == <<" ", " ">>
O_Bob == <<"B", "o", "b">>
O_AnnAndBob == <<"A", "n", "n", " ", "a", "n", "d", " ", "B", "o", "b">>
D_ASAP == <<"A", "S", "A", "P">>
D_asap == <<"a", "s", "a", "p">>
D_Friday == <<"F", "r", "i", "d", "a", "y">>
D_DueSoon == <<"d", "u", "e", " ", "s", "o", "o", "n">>
D_ThisWeek == <<"b", "y", " ", "t", "h", "i", "s", " ", "w", "e", "e", "k">>
D_WhenPossible == <<"w", "h", "e", "n", " ", "p", "o", "s", "s", "i", "b", "l", "e">>
N_Note == <<"n", "b">>

ValTasks == {T_Good, T_Thing, T_Fetch, T_Stuff, T_Blank, <<>>}
ValOwners == {O_Bob, O_AnnAndBob, S_Unassigned, <<>>, <<" ">>}
ValDeadlines == {None, <<>>, <<" ">>, D_ASAP, D_asap, D_Friday, D_DueSoon,
                 D_ThisWeek, D_WhenPossible}
ValConfidences == {0, 39, 40, 41, 70}
ValNotes == {None, <<>>, N_Note}
Thresholds == {CONFIDENCE_THRESHOLD, 70}

\* every combination of field values, for calls on one object
ValItems ==
  { ActionItem(t, o, d, c, NoneInt, None, n) :
      t \in ValTasks, o \in ValOwners, d \in ValDeadlines,
      c \in ValConfidences, n \in ValNotes }

\* the objects that lists are drawn from
ValBatchItems ==
  { ActionItem(t, o, d, c, NoneInt, None, None) :
      t \in {T_Good, T_Thing}, o \in {O_Bob, <<>>}, d \in {D_ASAP, D_Friday},
      c \in {39, 40} }

ValInit ==
  /\ heap \in {<<it>> : it \in ValItems} \cup {<<a, b>> : a, b \in ValBatchItems}
  /\ heap0 = heap
  /\ confidence_threshold \in Thresholds
  /\ pc = "idle"
  /\ input = <<>>
  /\ output = <<>>
  /\ exc = "none"
  /\ replies = <<>>
  /\ llmCalls = 0

ValidateItem(i) ==
  /\ pc = "idle"
  /\ pc' = "validate_item"
  /\ input' = <<i>>
  /\ output' = validate_item(heap[i], confidence_threshold)
  /\ UNCHANGED <<heap, heap0, confidence_threshold, exc, replies, llmCalls>>

ValidateBatch(ids) ==
  /\ pc = "idle"
  /\ pc' = "validate_batch"
  /\ input' = ids
  /\ output' = validate_batch(heap, ids, confidence_threshold)
  /\ UNCHANGED <<heap, heap0, confidence_threshold, exc, replies, llmCalls>>

\* main.py: validated_items = self.validator.handle_edge_cases(validated_items)
HandleEdgeCases ==
  /\ pc = "validate_batch"
  /\ pc' = "handle_edge_cases"
  /\ input' = output.valid_items
  /\ LET r == handle_edge_cases(heap, output.valid_items) IN
       /\ heap' = r.heap
       /\ output' = r.processed_items
  /\ heap0' = heap
  /\ UNCHANGED <<confidence_threshold, exc, replies, llmCalls>>

ValNext ==
  \/ \E i \in 1..Len(heap) : ValidateItem(i)
  \/ \E ids \in SeqsUpTo(1..Len(heap), MaxBatch) : ValidateBatch(ids)
  \/ HandleEdgeCases

SpecValidation == ValInit /\ [][ValNext]_vars

(***************************************************************************)
(* The confidence chain driven by a caller: score_confidence on one        *)
(* object, or score_batch on a list.                                       *)
(***************************************************************************)
X_070 == <<"0", ".", "7">>
X_095 == <<" ", "0", ".", "9", "5", "\n">>
X_150 == <<"1", ".", "5">>
X_Neg == <<"-", "0", ".", "2">>
X_One == <<"1">>
X_High == <<"h", "i", "g", "h">>
X_Prose == <<"0", ".", "7", " ", "(", "s", "u", "r", "e", ")">>

ScoreReplies ==
  {Responds(t) : t \in {X_070, X_095, X_150, X_Neg, X_One, X_High, X_Prose,
                        F_nan, F_inf, <<>>}}
    \cup {NoContent}
    \cup {Raises(e) : e \in {"TimeoutError", "ValueError"}}

\* the answers given to the calls of a batch
BatchReplies ==
  {Responds(t) : t \in {X_070, X_150, X_Neg, X_High, F_nan}}
    \cup {NoContent, Raises("TimeoutError")}

ConfItems ==
  { ActionItem(T_Good, O_Bob, D_Friday, c, NoneInt, None, None) :
      c \in {0, 50, 100} }

ConfInit ==
  /\ heap \in {<<a, b>> : a, b \in ConfItems}
  /\ heap0 = heap
  /\ confidence_threshold = CONFIDENCE_THRESHOLD
  /\ pc = "idle"
  /\ input = <<>>
  /\ output = <<>>
  /\ exc = "none"
  /\ replies = <<>>
  /\ llmCalls = 0

ScoreConfidence(i, reply) ==
  /\ pc = "idle"
  /\ pc' = "score_confidence"
  /\ input' = <<i>>
  /\ replies' = <<reply>>
  /\ LET r == score_confidence(heap[i], reply) IN
       /\ exc' = r.raised
       /\ output' = r.value
  /\ llmCalls' = 1
  /\ UNCHANGED <<heap, heap0, confidence_threshold>>

ScoreBatch(ids, answers) ==
  /\ pc = "idle"
  /\ pc' = "score_batch"
  /\ input' = ids
  /\ replies' = answers
  /\ LET r == score_batch(heap, ids, answers) IN
       /\ heap' = r.heap
       /\ exc' = r.raised
       /\ output' = IF r.raised = "none" THEN r.scored_items ELSE <<>>
       /\ llmCalls' = r.calls
  /\ UNCHANGED <<heap0, confidence_threshold>>

ConfNext ==
  \/ \E i \in 1..Len(heap), reply \in ScoreReplies : ScoreConfidence(i, reply)
  \/ \E ids \in SeqsUpTo(1..Len(heap), MaxScored) :
       \E answers \in [1..Len(ids) -> BatchReplies] : ScoreBatch(ids, answers)

SpecConfidence == ConfInit /\ [][ConfNext]_vars

(***************************************************************************)
(* Collaborator responses for the MAP and REDUCE prompts, as lexemes.      *)
(***************************************************************************)
RECURSIVE CommaJoin(_)
CommaJoin(parts) ==
  IF parts = <<>> THEN <<>>
  ELSE IF Len(parts) = 1 THEN parts[1]
  ELSE parts[1] \o <<Comma>> \o CommaJoin(Tail(parts))

Pair(key, value) == <<JStr(key), Colon>> \o value
Obj(pairs) == <<LBrace>> \o CommaJoin(pairs) \o <<RBrace>>
Arr(values) == <<LBracket>> \o CommaJoin(values) \o <<RBracket>>
Str(text) == <<JStr(text)>>
Num(text) == <<text>>

W_Here == <<"H", "e", "r", "e">>
W_Done == <<"d", "o", "n", "e">>

\* {"task": "Send report", "owner": "Bob", "confidence": 0.9}
J_ItemA == Obj(<<Pair(K_task, Str(T_Good)), Pair(K_owner, Str(O_Bob)),
                 Pair(K_confidence, Num(<<"0", ".", "9">>))>>)
\* {"task": "Review the thing with the team", "deadline": "ASAP", "source_chunk": 7}
J_ItemB == Obj(<<Pair(K_task, Str(T_Thing)), Pair(K_deadline, Str(D_ASAP)),
                 Pair(K_source_chunk, Num(<<"7">>))>>)
\* {"owner": "Bob"}: no task
J_NoTask == Obj(<<Pair(K_owner, Str(O_Bob))>>)
\* {"task": "Send report", "confidence": 1.5}: out of range
J_BadConfidence == Obj(<<Pair(K_task, Str(T_Good)),
                         Pair(K_confidence, Num(<<"1", ".", "5">>))>>)

J_Summary(removed, review) ==
  Obj(<<Pair(K_duplicates_removed, Num(removed)),
        Pair(K_items_needing_review, Num(review))>>)

\* texts in which no JSON value can be located or decoded between the
\* first "open" and the last "close"
Malformed(open, close, inner) ==
  { <<>>,
    <<W_Here, W_Done>>,
    <<W_Here, open, W_Done>>,
    <<W_Here, close>>,
    <<close, W_Here, open>>,
    <<open, W_Here, close>>,
    <<open>> \o inner,
    <<open>> \o inner \o <<close, W_Done, close>> }

ReduceTexts ==
  { Obj(<<>>),
    Obj(<<Pair(K_items, Arr(<<>>))>>),
    Obj(<<Pair(K_items, Arr(<<J_ItemA>>))>>),
    <<W_Here>> \o Obj(<<Pair(K_items, Arr(<<J_ItemA, J_ItemB>>))>>) \o <<W_Done>>,
    Obj(<<Pair(K_items, Arr(<<J_ItemA, J_NoTask, J_ItemB, J_BadConfidence>>)),
          Pair(K_summary, J_Summary(<<"1">>, <<"2">>))>>),
    Obj(<<Pair(K_items, Arr(<<J_ItemB, Num(<<"1">>)>>)),
          Pair(K_summary, Obj(<<>>))>>),
    Obj(<<Pair(K_items, <<L_null>>)>>),
    Obj(<<Pair(K_items, Str(<<"a", "b">>))>>),
    Obj(<<Pair(K_items, Arr(<<J_ItemA>>)), Pair(K_summary, <<L_null>>)>>),
    Obj(<<Pair(K_items, Arr(<<J_ItemA>>)),
          Pair(K_summary, J_Summary(<<"1", ".", "5">>, <<"0">>))>>) }
    \cup Malformed(LBrace, RBrace, Pair(K_items, Arr(<<J_ItemA>>)))

ReduceReplies ==
  {Responds(t) : t \in ReduceTexts} \cup {NoContent, Raises("TimeoutError")}

MapTexts ==
  { Arr(<<>>),
    Arr(<<J_ItemA>>),
    <<W_Here>> \o Arr(<<J_ItemA, J_ItemB>>) \o <<W_Done>>,
    Arr(<<J_ItemA, J_NoTask, J_ItemB, J_BadConfidence>>),
    Arr(<<Num(<<"1">>), J_ItemB, Str(T_Good)>>),
    Obj(<<Pair(K_items, Arr(<<J_ItemA>>))>>) }
    \cup Malformed(LBracket, RBracket, J_ItemA)

MapReplies ==
  {Responds(t) : t \in MapTexts} \cup {NoContent, Raises("TimeoutError")}

(***************************************************************************)
(* The REDUCE chain driven by a caller: consolidate on a list.             *)
(***************************************************************************)
ReduceItems ==
  { ActionItem(t, O_Bob, None, 50, c, None, None) :
      t \in {T_Good, T_Thing}, c \in {0, 1} }

ReduceInit ==
  /\ heap \in {<<a, b>> : a, b \in ReduceItems}
  /\ heap0 = heap
  /\ confidence_threshold = CONFIDENCE_THRESHOLD
  /\ pc = "idle"
  /\ input = <<>>
  /\ output = <<>>
  /\ exc = "none"
  /\ replies = <<>>
  /\ llmCalls = 0

Consolidate(ids, reply) ==
  /\ pc = "idle"
  /\ pc' = "consolidate"
  /\ input' = ids
  /\ LET r == consolidate(heap, ids, reply) IN
       /\ heap' = r.heap
       /\ output' = [items |-> r.items,
                     duplicates_removed |-> r.duplicates_removed,
                     fields_filled |-> r.fields_filled,
                     notes |-> r.notes]
       /\ llmCalls' = r.calls
       /\ replies' = IF r.calls = 0 THEN <<>> ELSE <<reply>>
  /\ exc' = "none"
  /\ UNCHANGED <<heap0, confidence_threshold>>

ReduceNext ==
  \E ids \in SeqsUpTo(1..Len(heap), MaxReduced), reply \in ReduceReplies :
    Consolidate(ids, reply)

SpecReduce == ReduceInit /\ [][ReduceNext]_vars

(***************************************************************************)
(* The MAP chain driven by a caller: extract on one chunk.                 *)
(***************************************************************************)
C_Alice == <<"p", "l", "e", "a", "s", "e", " ", "s", "e", "n", "d">>
C_Bob == <<"o", "k", "\n", "w", "i", "l", "l", " ", "d", "o">>

MapInit ==
  /\ heap = <<>>
  /\ heap0 = heap
  /\ confidence_threshold = CONFIDENCE_THRESHOLD
  /\ pc = "idle"
  /\ input = <<>>
  /\ output = <<>>
  /\ exc = "none"
  /\ replies = <<>>
  /\ llmCalls = 0

Extract(chunk_text, chunk_index, total_chunks, reply) ==
  /\ pc = "idle"
  /\ pc' = "extract"
  /\ input' = [chunk_text |-> chunk_text, chunk_index |-> chunk_index,
               total_chunks |-> total_chunks]
  /\ LET r == extract(heap, chunk_text, chunk_index, total_chunks, reply) IN
       /\ heap' = r.heap
       /\ output' = [items |-> r.items, chunk_index |-> r.chunk_index,
                     total_chunks |-> r.total_chunks, error |-> r.error]
  /\ llmCalls' = 1
  /\ replies' = <<reply>>
  /\ exc' = "none"
  /\ UNCHANGED <<heap0, confidence_threshold>>

\* the replies a batch of chunks is answered with
BatchMapReplies ==
  { Responds(Arr(<<J_ItemA>>)),
    Responds(<<W_Here>> \o Arr(<<J_ItemA, J_NoTask, J_ItemB>>) \o <<W_Done>>),
    Responds(<<LBracket>> \o J_ItemA),
    NoContent,
    Raises("TimeoutError") }

\* lists of n chunk texts
BatchChunks(n) ==
  { [k \in 1..n |-> IF k % 2 = 1 THEN odd ELSE even] :
      odd \in {C_Alice, C_Bob}, even \in {C_Alice, C_Bob} }

ExtractBatch(chunks, answers) ==
  /\ pc = "idle"
  /\ pc' = "extract_batch"
  /\ input' = chunks
  /\ LET done == extract_batch(heap, chunks, answers) IN
       /\ heap' = done.heap
       /\ output' = [k \in 1..Len(done.results) |->
                       [items |-> done.results[k].items,
                        chunk_index |-> done.results[k].chunk_index,
                        total_chunks |-> done.results[k].total_chunks,
                        error |-> done.results[k].error]]
  /\ llmCalls' = Len(chunks)
  /\ replies' = answers
  /\ exc' = "none"
  /\ UNCHANGED <<heap0, confidence_threshold>>

MapNext ==
  \/ \E chunk_text \in {C_Alice, C_Bob}, total_chunks \in 1..MaxChunks :
       \E chunk_index \in 0..(total_chunks - 1), reply \in MapReplies :
         Extract(chunk_text, chunk_index, total_chunks, reply)
  \/ \E n \in 0..MaxChunks :
       \E chunks \in BatchChunks(n), answers \in [1..n -> BatchMapReplies] :
         ExtractBatch(chunks, answers)

SpecMap == MapInit /\ [][MapNext]_vars

(***************************************************************************)
(* The document loader driven by a caller: process on a transcript.        *)
(***************************************************************************)
L_Alice1 == <<"A", "l", ":", " ", "s", "e", "n", "d", " ", "i", "t">>
L_Alice2 == <<"A", "l", ":", "o", "k">>
L_Bob == <<" ", "B", "o", " ", ":", " ", "a", "t", " ", "9", ":", "3", "0", " ">>
L_Plain == <<"(", "l", "a", "u", "g", "h", "s", ")", " ">>
L_NoText == <<"A", "l", ":">>
L_Spaces == <<" ", "\t">>

TranscriptLines == {L_Alice1, L_Alice2, L_Bob, L_Plain, L_NoText, L_Spaces, <<>>}

\* a transcript of n lines, the speaker changing every other line
LongTranscript(n) ==
  Join([k \in 1..n |-> IF (k \div 2) % 2 = 0 THEN L_Alice2 ELSE L_Bob], "\n")

\* time-based chunking cuts only transcripts of 2 * 30 * CHUNK_SIZE_MINUTES
\* lines or more
ShortTranscripts ==
  {Join(lines, "\n") : lines \in SeqsUpTo(TranscriptLines, MaxLines)}

Transcripts ==
  ShortTranscripts
    \cup {LongTranscript(n) : n \in {60 * CHUNK_SIZE_MINUTES,
                                     60 * CHUNK_SIZE_MINUTES + 1}}

ChunkStrategies == {"speaker_turns", "time_based", "by_topic"}

LoaderInit ==
  /\ heap = <<>>
  /\ heap0 = heap
  /\ confidence_threshold = CONFIDENCE_THRESHOLD
  /\ pc = "idle"
  /\ input = <<>>
  /\ output = <<>>
  /\ exc = "none"
  /\ replies = <<>>
  /\ llmCalls = 0

Process(chunk_strategy, text) ==
  /\ pc = "idle"
  /\ pc' = "process"
  /\ input' = [chunk_strategy |-> chunk_strategy, text |-> text]
  /\ output' = process(chunk_strategy, text)
  /\ UNCHANGED <<heap, heap0, confidence_threshold, exc, replies, llmCalls>>

LoaderNext ==
  \E chunk_strategy \in ChunkStrategies, text \in Transcripts :
    Process(chunk_strategy, text)

SpecLoader == LoaderInit /\ [][LoaderNext]_vars

(***************************************************************************)
(* The extractor driven by a caller: one call of extract on a transcript.  *)
(***************************************************************************)
\* the answers the collaborators give in turn during one run
PipelineMapAnswers ==
  { <<Responds(Arr(<<J_ItemA>>))>>,
    <<Responds(Arr(<<>>))>>,
    <<Responds(Arr(<<J_ItemA, J_ItemB>>)), Raises("TimeoutError")>> }

PipelineReduceAnswers ==
  { Responds(Obj(<<Pair(K_items, Arr(<<J_ItemA>>))>>)), NoContent }

PipelineScoreAnswers ==
  { <<Responds(X_070)>>, <<Responds(X_150), NoContent>> }

PipelineInit ==
  /\ heap = <<>>
  /\ heap0 = heap
  /\ confidence_threshold = CONFIDENCE_THRESHOLD
  /\ pc = "idle"
  /\ input = <<>>
  /\ output = <<>>
  /\ exc = "none"
  /\ replies = <<>>
  /\ llmCalls = 0

ExtractorExtract(transcript_text, mapAnswers, reduceAnswer, scoreAnswers) ==
  /\ pc = "idle"
  /\ LET run == ExtractorRun(heap, "speaker_turns", confidence_threshold,
                             transcript_text, mapAnswers, reduceAnswer,
                             scoreAnswers)
     IN  /\ heap' = run.heap
         /\ output' = [returned |-> run.returned, stages |-> run.stages]
         /\ exc' = run.raised
         /\ llmCalls' = run.calls
  /\ pc' = "extractor_extract"
  /\ input' = [transcript_text |-> transcript_text]
  /\ UNCHANGED <<heap0, confidence_threshold, replies>>

PipelineNext ==
  \E transcript_text \in ShortTranscripts, mapAnswers \in PipelineMapAnswers,
     reduceAnswer \in PipelineReduceAnswers,
     scoreAnswers \in PipelineScoreAnswers :
    ExtractorExtract(transcript_text, mapAnswers, reduceAnswer, scoreAnswers)

SpecPipeline == PipelineInit /\ [][PipelineNext]_vars

(***************************************************************************)
(* The stages of extract from line 47 on, entered with the chunk list of a *)
(* speaker-turn loader: the MAP loop, the early return or REDUCE, the      *)
(* scoring and the validation, as one call.                                *)
(***************************************************************************)
\* {"task": "Send report", "owner": " ", "deadline": "", "confidence": 0.3}
J_ItemC == Obj(<<Pair(K_task, Str(T_Good)), Pair(K_owner, Str(<<" ">>)),
                 Pair(K_deadline, Str(<<>>)),
                 Pair(K_confidence, Num(<<"0", ".", "3">>))>>)

\* transcripts of 0 .. MaxChunks speaker turns
StageTranscripts ==
  { Join([k \in 1..n |-> IF k % 2 = 1 THEN L_Alice1 ELSE L_Bob], "\n") :
      n \in 0..MaxChunks }

StageChunkLists == { process("speaker_turns", text) : text \in StageTranscripts }

StageMapAnswers ==
  { <<Responds(Arr(<<J_ItemA>>))>>,
    <<Responds(Arr(<<>>))>>,
    <<Raises("TimeoutError")>>,
    <<Responds(<<W_Here>> \o Arr(<<J_ItemA, J_ItemB>>)), Raises("TimeoutError")>>,
    <<Responds(Arr(<<J_ItemA, J_NoTask, J_ItemB, J_BadConfidence>>))>>,
    <<Responds(Arr(<<J_ItemC>>)), Responds(Arr(<<J_ItemA>>))>> }

StageReduceAnswers ==
  { Responds(Obj(<<Pair(K_items, Arr(<<J_ItemA>>))>>)),
    Responds(Obj(<<Pair(K_items, Arr(<<J_ItemC, J_ItemB>>))>>)),
    Responds(Obj(<<Pair(K_items, Arr(<<J_ItemA, J_NoTask, J_ItemB>>)),
                   Pair(K_summary, J_Summary(<<"1">>, <<"2">>))>>)),
    Responds(Obj(<<Pair(K_items, Arr(<<>>))>>)),
    Responds(<<W_Here, W_Done>>),
    Responds(<<LBrace>> \o Pair(K_items, Arr(<<J_ItemA>>))),
    NoContent,
    Raises("TimeoutError") }

StageScoreAnswers ==
  { <<Responds(X_070)>>,
    <<Responds(X_High)>>,
    <<Responds(X_Neg)>>,
    <<Responds(X_070), Responds(X_High)>>,
    <<Responds(X_150), NoContent>>,
    <<Raises("TimeoutError")>> }

StagesInit ==
  /\ heap = <<>>
  /\ heap0 = heap
  /\ confidence_threshold = CONFIDENCE_THRESHOLD
  /\ pc = "idle"
  /\ input = <<>>
  /\ output = <<>>
  /\ exc = "none"
  /\ replies = <<>>
  /\ llmCalls = 0

ExtractStages(chunks, mapAnswers, reduceAnswer, scoreAnswers) ==
  /\ pc = "idle"
  /\ LET run == ExtractFromChunks(heap, chunks, confidence_threshold,
                                  mapAnswers, reduceAnswer, scoreAnswers)
     IN  /\ heap' = run.heap
         /\ output' = [returned |-> run.returned, stages |-> run.stages,
                       map_results |-> run.map_results,
                       reduce_results |-> run.reduce_results]
         /\ exc' = run.raised
         /\ llmCalls' = run.calls
  /\ pc' = "extract_stages"
  /\ input' = chunks
  /\ replies' = [map |-> mapAnswers, reduce |-> reduceAnswer,
                 score |-> scoreAnswers]
  /\ UNCHANGED <<heap0, confidence_threshold>>

StagesNext ==
  \E chunks \in StageChunkLists, mapAnswers \in StageMapAnswers,
     reduceAnswer \in StageReduceAnswers, scoreAnswers \in StageScoreAnswers :
    ExtractStages(chunks, mapAnswers, reduceAnswer, scoreAnswers)

SpecStages == StagesInit /\ [][StagesNext]_vars

(***************************************************************************)
(* Claims about the validation layer.                                      *)
(***************************************************************************)
\* a task that is neither blank nor vague, as the spec words it
WellFormedTask(task) ==
  /\ Strip(task) # <<>>
  /\ \A term \in vague_terms : ~Contains(Lower(task), term)

\* a task in which a vague term occurs, whatever the letter case
HasVagueTerm(task) == \E term \in vague_terms : Contains(Lower(task), term)

\* the object validate_item was called on
Validated == heap[input[1]]

\* C6: validate_item rejects every item whose confidence is strictly below
\* the threshold, and accepts a well-formed item whose confidence is equal to
\* or above the threshold.
C6_ThresholdInclusive ==
  pc = "validate_item" =>
    /\ Validated.confidence < confidence_threshold => ~output.valid
    /\ (Validated.confidence >= confidence_threshold
          /\ WellFormedTask(Validated.task)) => output.valid

\* a well-formed item exactly at the threshold has been accepted
C6_Witness ==
  /\ pc = "validate_item"
  /\ Validated.confidence = confidence_threshold
  /\ WellFormedTask(Validated.task)
  /\ output.valid

\* C7 as stated: an item whose task contains a vague term is rejected with
\* the vagueness reason for every confidence value.
C7_VagueReasonAlways ==
  (pc = "validate_item" /\ HasVagueTerm(Validated.task)) =>
    (~output.valid /\ output.reason = R_TooVague)

\* C7 as amended: an item whose task contains a vague term is rejected for
\* every confidence value; the reason is the vagueness reason when the
\* confidence is at or above the threshold, and the low-confidence reason
\* (first rule to match) when it is below.
C7_VagueRejected ==
  (pc = "validate_item" /\ HasVagueTerm(Validated.task)) =>
    /\ ~output.valid
    /\ output.reason = (IF Validated.confidence < confidence_threshold
                        THEN R_ConfidenceTooLow ELSE R_TooVague)

\* "Review the thing with the team" has been rejected for low confidence
C7_Witness ==
  /\ pc = "validate_item"
  /\ Validated.task = T_Thing
  /\ Validated.confidence < confidence_threshold
  /\ ~output.valid
  /\ output.reason = R_ConfidenceTooLow

\* an accepted object with a vague deadline and no notes, before the call
VagueNoNotes(i) ==
  /\ ~Falsy(heap0[i].deadline)
  /\ \E term \in vague_deadlines : Contains(heap0[i].deadline, term)
  /\ heap0[i].notes = None

Occurrences(ids, i) == Cardinality({k \in 1..Len(ids) : ids[k] = i})

\* C8 as stated: for an accepted item with a vague deadline and notes None,
\* handle_edge_cases leaves notes equal to the marker and does not alter
\* task, owner or confidence.
C8_MarkerOnlyOwnerKept ==
  pc = "handle_edge_cases" =>
    \A k \in 1..Len(input) :
      VagueNoNotes(input[k]) =>
        /\ heap[input[k]].notes = S_Marker
        /\ heap[input[k]].task = heap0[input[k]].task
        /\ heap[input[k]].owner = heap0[input[k]].owner
        /\ heap[input[k]].confidence = heap0[input[k]].confidence

\* C8 as amended: for an accepted item that the list holds once, with a
\* vague deadline and notes None, handle_edge_cases leaves notes equal to
\* the marker and does not alter task, confidence or deadline; owner is
\* unchanged unless it is empty or whitespace-only, and then it becomes
\* "Unassigned".
C8_MarkerOnly ==
  pc = "handle_edge_cases" =>
    \A k \in 1..Len(input) :
      (VagueNoNotes(input[k]) /\ Occurrences(input, input[k]) = 1) =>
        /\ heap[input[k]].notes = S_Marker
        /\ heap[input[k]].task = heap0[input[k]].task
        /\ heap[input[k]].confidence = heap0[input[k]].confidence
        /\ heap[input[k]].deadline = heap0[input[k]].deadline
        /\ heap[input[k]].owner =
             (IF Strip(heap0[input[k]].owner) = <<>>
              THEN S_Unassigned ELSE heap0[input[k]].owner)

\* an accepted "ASAP" item without notes and without owner has been marked
C8_Witness ==
  /\ pc = "handle_edge_cases"
  /\ \E k \in 1..Len(input) :
       /\ Occurrences(input, input[k]) = 1
       /\ heap0[input[k]].deadline = D_ASAP
       /\ heap0[input[k]].notes = None
       /\ heap0[input[k]].owner = <<>>
       /\ heap[input[k]].notes = S_Marker
       /\ heap[input[k]].owner = S_Unassigned

(***************************************************************************)
(* Claims about the confidence chain.                                      *)
(***************************************************************************)
\* a collaborator outcome for which the spec documents the fallback
Degraded(reply) ==
  \/ reply.exc # "none"
  \/ ~reply.has_content
  \/ ~Float(reply.content).ok

\* C2: score_confidence never raises: for every collaborator outcome (the
\* call fails or times out, the response is non-numeric, the response has no
\* usable content) it returns the item's pre-existing confidence, and
\* score_batch completes for every item of its input.
C2_NeverRaises ==
  /\ pc = "score_confidence" =>
       /\ exc = "none"
       /\ Degraded(replies[1]) => output = heap[input[1]].confidence
  /\ pc = "score_batch" =>
       /\ exc = "none"
       /\ Len(output) = Len(input)

\* C3: after score_batch returns, every item of the returned list has a
\* confidence in [0,1], whatever the collaborator answered for each item,
\* given that every input item entered with a confidence in [0,1].
C3_ConfidenceInRange ==
  (pc = "score_batch" /\ exc = "none") =>
    \A k \in 1..Len(output) :
      heap[output[k]].confidence >= 0 /\ heap[output[k]].confidence <= 100

\* score_batch has returned after an answer above 1 and a non-numeric one
C3_Witness ==
  /\ pc = "score_batch"
  /\ exc = "none"
  /\ Len(output) = 2
  /\ output[1] # output[2]
  /\ replies[1].content = X_150
  /\ replies[2].content = X_High
  /\ heap[output[1]].confidence = 100
  /\ heap[output[2]].confidence = heap0[output[2]].confidence

(***************************************************************************)
(* Claims about the REDUCE and MAP chains.                                 *)
(***************************************************************************)
\* no JSON value can be located or decoded in the text: no "open", no
\* "close", the last "close" before the first "open", or undecodable text
\* between them
Unparsable(text, open, close) ==
  \/ Find(text, open) < 0
  \/ RFind(text, close) < 0
  \/ RFind(text, close) < Find(text, open)
  \/ ~loads(Slice(text, Find(text, open), RFind(text, close) + 1)).ok

\* C1: for every non-empty input list, whenever consolidate cannot locate
\* or parse a JSON object in the collaborator's response, the returned
\* items are the input list exactly, with duplicates_removed = 0,
\* fields_filled = 0 and a note recording the failure.
C1_FallbackIdentity ==
  (/\ pc = "consolidate"
   /\ input # <<>>
   /\ replies[1].has_content
   /\ Unparsable(replies[1].content, LBrace, RBrace)) =>
    /\ output.items = input
    /\ output.duplicates_removed = 0
    /\ output.fields_filled = 0
    /\ output.notes.text \in {"Consolidation failed", "Error"}

\* C9: consolidate called with an empty list returns zero items,
\* duplicates_removed = 0 and fields_filled = 0, and makes no call to the
\* collaborator.
C9_EmptyNoCall ==
  (pc = "consolidate" /\ input = <<>>) =>
    /\ output.items = <<>>
    /\ output.duplicates_removed = 0
    /\ output.fields_filled = 0
    /\ llmCalls = 0

\* consolidate has returned from a call with an empty list
C9_Witness ==
  /\ pc = "consolidate"
  /\ input = <<>>
  /\ output.items = <<>>
  /\ llmCalls = 0

\* C4: extract returns an empty item list and a populated error field when
\* the collaborator call fails, when the response holds no locatable
\* "[" ... "]" array and when the located text is not decodable JSON; in
\* none of these cases does extract raise.
C4_EmptyWithError ==
  (/\ pc = "extract"
   /\ \/ replies[1].exc # "none"
      \/ /\ replies[1].has_content
         /\ Unparsable(replies[1].content, LBracket, RBracket)) =>
    /\ exc = "none"
    /\ output.items = <<>>
    /\ output.error.set

\* the field values of the objects a list refers to
ItemValues(objects, ids) == [k \in 1..Len(ids) |-> objects[ids[k]]]

\* what extract gives for chunk i of the batch when it is called on its own
Alone(i) == extract(<<>>, input[i], i - 1, Len(input), replies[i])

\* C12: extract_batch over n chunks returns exactly n outputs in chunk
\* order; the i-th (counting from 0) has chunk_index i and total_chunks n;
\* every output is what extract gives for its own chunk and reply, whatever
\* happened to the other chunks, so a failed chunk neither stops the
\* following ones nor changes another output.
C12_OneOutputPerChunk ==
  pc = "extract_batch" =>
    /\ exc = "none"
    /\ Len(output) = Len(input)
    /\ \A i \in 1..Len(output) :
         /\ output[i].chunk_index = i - 1
         /\ output[i].total_chunks = Len(input)
         /\ output[i].error = Alone(i).error
         /\ ItemValues(heap, output[i].items)
              = ItemValues(Alone(i).heap, Alone(i).items)

\* a batch whose first chunk failed and whose second chunk gave items
C12_Witness ==
  /\ pc = "extract_batch"
  /\ Len(input) >= 2
  /\ replies[1].exc # "none"
  /\ output[1].error.set
  /\ output[1].items = <<>>
  /\ ~output[2].error.set
  /\ Len(output[2].items) = 2

\* the decodable JSON arrays that the text holds somewhere
ArraysIn(text) ==
  { loads(SubSeq(text, a, b)).val :
      <<a, b>> \in { pos \in (1..Len(text)) \X (1..Len(text)) :
                       /\ pos[1] < pos[2]
                       /\ text[pos[1]] = LBracket
                       /\ text[pos[2]] = RBracket
                       /\ loads(SubSeq(text, pos[1], pos[2])).ok } }

\* the elements of an array that coerce, in array order, as items of the
\* chunk
ItemsOf(array, chunk_index) ==
  LET kept == SelectSeq(array.elems, Coercible)
  IN  [k \in 1..Len(kept) |-> [Coerce(kept[k]) EXCEPT !.source_chunk = chunk_index]]

\* the call was answered with a text
Answered == pc = "extract" /\ replies[1].exc = "none" /\ replies[1].has_content

\* C15 as stated: when the response holds a decodable JSON array, the items
\* of the output are exactly the elements of such an array that coerce into
\* an ActionItem, in array order, each with source_chunk equal to the
\* chunk_index argument, and the chunk is not aborted.
C15_ArrayItemsKept ==
  (Answered /\ ArraysIn(replies[1].content) # {}) =>
    /\ exc = "none"
    /\ ~output.error.set
    /\ \E array \in ArraysIn(replies[1].content) :
         ItemValues(heap, output.items) = ItemsOf(array, input.chunk_index)

\* C15 as amended: when the text from the first "[" to the last "]" of the
\* response is a decodable JSON array, the items of the output are exactly
\* the elements of that array that coerce into an ActionItem, in array
\* order, each with source_chunk equal to the chunk_index argument, and no
\* error is reported.
C15_LocatedArrayItemsKept ==
  (Answered /\ ~Unparsable(replies[1].content, LBracket, RBracket)) =>
    /\ exc = "none"
    /\ ~output.error.set
    /\ \A text \in {replies[1].content} :
         \A array \in {loads(Slice(text, Find(text, LBracket),
                                   RFind(text, RBracket) + 1)).val} :
           ItemValues(heap, output.items) = ItemsOf(array, input.chunk_index)

\* an array of four elements gave two items, one of them supplied with a
\* source_chunk of its own, in a chunk with another index
C15_Witness ==
  /\ Answered
  /\ ~Unparsable(replies[1].content, LBracket, RBracket)
  /\ Len(replies[1].content) > 4
  /\ Len(output.items) = 2
  /\ input.chunk_index = 1
  /\ \A k \in 1..2 : heap[output.items[k]].source_chunk = 1
  /\ heap[output.items[2]].task = T_Thing

(***************************************************************************)
(* Claims about the document loader.                                       *)
(***************************************************************************)
RECURSIVE Flatten(_)
Flatten(seqs) ==
  IF seqs = <<>> THEN <<>>
  ELSE IF Len(seqs) = 1 THEN seqs[1]
  ELSE LET half == Len(seqs) \div 2 IN
       Flatten(SubSeq(seqs, 1, half)) \o Flatten(SubSeq(seqs, half + 1, Len(seqs)))

\* the chunk contents in chunk order, each split on its newline joins
ChunkLines(chunks) ==
  Flatten([k \in 1..Len(chunks) |-> Split(chunks[k].page_content, "\n")])

\* the chunks are numbered 0, 1, ... in list order
Numbered(chunks) == \A k \in 1..Len(chunks) : chunks[k].chunk_index = k - 1

\* the non-empty lines of a transcript, in order
NonEmptyLines(text) ==
  SelectSeq(Split(text, "\n"), LAMBDA line : Strip(line) # <<>>)

\* what a line says: the text after its first colon, without the white
\* space around it, or the whole line when it has no colon
Said(line) ==
  IF \E i \in 1..Len(line) : line[i] = ":"
  THEN Strip(SubSeq(line, (CHOOSE i \in 1..Len(line) :
                             line[i] = ":" /\ \A j \in 1..(i - 1) : line[j] # ":") + 1,
                    Len(line)))
  ELSE line

\* C5 as stated: for both strategies, the chunk contents in chunk_index
\* order, split on their newline joins, are exactly the transcript's
\* non-empty lines, in order, each once and unaltered.
C5_LinesReproduced ==
  pc = "process" =>
    /\ Numbered(output)
    /\ ChunkLines(output) = NonEmptyLines(input.text)

\* C5 as amended: for both strategies, the chunk contents in chunk_index
\* order, split on their newline joins, are exactly what the non-empty
\* lines of the stripped transcript say, in order and each once: for a line
\* with a colon the text after its first colon without the white space
\* around it (the speaker prefix is moved to the metadata), otherwise the
\* line itself.
C5_ContentsReproduced ==
  pc = "process" =>
    /\ Numbered(output)
    /\ ChunkLines(output) =
         LET lines == NonEmptyLines(Strip(input.text))
         IN  [k \in 1..Len(lines) |-> Said(lines[k])]

\* a transcript has been cut into several chunks, one of several lines
C5_Witness ==
  /\ pc = "process"
  /\ Len(output) >= 2
  /\ \E k \in 1..Len(output) : output[k].num_lines >= 2
  /\ Len(ChunkLines(output)) >= 3

\* for every line of the chunked documents, in order, the position of the
\* chunk that holds it according to the chunks' num_lines
LineChunk(chunks) ==
  Flatten([k \in 1..Len(chunks) |-> [j \in 1..chunks[k].num_lines |-> k]])

\* the chunks cut the documents into runs of lines of one speaker each
SpeakerRuns(documents, chunks, holder) ==
  /\ Numbered(chunks)
  /\ Len(holder) = Len(documents)
  /\ \A k \in 1..Len(chunks) :
       /\ chunks[k].num_lines >= 1
       /\ Len(Split(chunks[k].page_content, "\n")) = chunks[k].num_lines
  /\ ChunkLines(chunks) = [i \in 1..Len(documents) |-> documents[i].page_content]
  /\ \A i \in 1..Len(documents) :
       documents[i].speaker = chunks[holder[i]].speaker
  /\ \A k \in 1..(Len(chunks) - 1) : chunks[k].speaker # chunks[k + 1].speaker

\* C14: chunk_by_speaker_turns numbers its chunks 0 .. k-1 in order; the
\* chunks hold the lines in order, the first line in chunk 0 and the last
\* line in the last chunk; every line of a chunk has the chunk's speaker
\* and adjacent chunks have different speakers, so every chunk is a whole
\* run of consecutive lines of one speaker.
C14_ChunksAreSpeakerRuns ==
  (pc = "process" /\ input.chunk_strategy # "time_based") =>
    \A documents \in {ingest(input.text)} :
      \A holder \in {LineChunk(output)} :
        SpeakerRuns(documents, output, holder)

\* a speaker has spoken, been answered in several lines and spoken again
C14_Witness ==
  /\ pc = "process"
  /\ input.chunk_strategy = "speaker_turns"
  /\ Len(output) >= 3
  /\ output[1].speaker = output[3].speaker
  /\ output[1].speaker # output[2].speaker
  /\ output[2].num_lines >= 2
  /\ output[3].chunk_index = 2

(***************************************************************************)
(* ActionItemExtractor.extract                                             *)
(***************************************************************************)
\* the stages in the order Chunk, Map for every chunk, then either nothing
\* more or Reduce, Confidence, Validate
StagesInOrder(stages) ==
  /\ stages # <<>> => stages[1] = "Chunk"
  /\ \A a, b \in 1..Len(stages) :
       a < b =>
         /\ stages[b] # "Chunk"
         /\ stages[a] = "Reduce" => stages[b] \in {"Confidence", "Validate"}
         /\ stages[a] = "Confidence" => stages[b] = "Validate"
         /\ stages[a] = "Validate" => FALSE

\* C10: in every run of ActionItemExtractor.extract the stages are executed
\* strictly in the order Chunk, Map, Reduce, Confidence, Validate, and a run
\* on a readable transcript reaches the Validate stage or the early return
\* after a Map stage without items; it never aborts before Map starts.
C10_StagesInOrderToTheEnd ==
  pc = "extractor_extract" =>
    /\ StagesInOrder(output.stages)
    /\ output.stages # <<>>
    /\ \/ output.stages[Len(output.stages)] = "Validate"
       \/ /\ exc = "none"
          /\ output.returned = <<>>
          /\ \A k \in 1..Len(output.stages) :
               output.stages[k] \in {"Chunk", "Map"}

(***************************************************************************)
(* Claims about the stages of a run.                                       *)
(***************************************************************************)
\* the collaborator calls the REDUCE stage of the run made
ReduceCalls ==
  IF output.reduce_results = <<>> THEN 0 ELSE output.reduce_results[1].calls

\* the MAP stage of the run produced no items
NoMapItems ==
  \A k \in 1..Len(output.map_results) : output.map_results[k].items = <<>>

Untouched(envelope) ==
  ItemValues(heap, envelope.items) = ItemValues(envelope.heap, envelope.items)

\* C13 as stated: the item list and the field values of the items of every
\* MapPhaseOutput and ReducePhaseOutput are, when the run completes, what
\* they were when the envelope was constructed; no later stage alters them.
C13_EnvelopesNeverChange ==
  (pc = "extract_stages" /\ exc = "none") =>
    /\ \A k \in 1..Len(output.map_results) : Untouched(output.map_results[k])
    /\ \A k \in 1..Len(output.reduce_results) :
         Untouched(output.reduce_results[k])

\* the objects the run returned, as they are when it returns
ReturnedItems == ItemValues(heap, output.returned)

\* C16: every item a completed run returns has a confidence at or above the
\* configured threshold, a task that is not blank and holds no vague term,
\* an owner that is not blank, and a deadline that is neither null nor
\* blank, whatever the collaborators answered in the MAP, REDUCE and
\* confidence stages.
C16_ReturnedItemsValid ==
  (pc = "extract_stages" /\ exc = "none") =>
    \A k \in 1..Len(ReturnedItems) :
      /\ ReturnedItems[k].confidence >= confidence_threshold
      /\ WellFormedTask(ReturnedItems[k].task)
      /\ ReturnedItems[k].owner # None
      /\ Strip(ReturnedItems[k].owner) # <<>>
      /\ ReturnedItems[k].deadline # None
      /\ Strip(ReturnedItems[k].deadline) # <<>>

\* a run returned an item that the MAP stage had made with a confidence
\* below the threshold, a blank owner and an empty deadline
C16_Witness ==
  /\ pc = "extract_stages"
  /\ exc = "none"
  /\ \E k \in 1..Len(output.returned) :
       \E m \in 1..Len(output.map_results) :
         /\ \E j \in 1..Len(output.map_results[m].items) :
              output.map_results[m].items[j] = output.returned[k]
         /\ output.map_results[m].heap[output.returned[k]].confidence
              < confidence_threshold
         /\ Strip(output.map_results[m].heap[output.returned[k]].owner) = <<>>
         /\ output.map_results[m].heap[output.returned[k]].deadline = <<>>
         /\ ReturnedItems[k].owner = S_Unassigned
         /\ ReturnedItems[k].deadline = S_NotSpecified

====
